---------------------------- MODULE Spec2Model ----------------------------
(***************************************************************************)
(* BeQuicSpdyClient (src/src/chromium/be_quic_spdy_client.cc): the         *)
(* buffered read / seek core.  A network thread delivers body chunks with  *)
(* on_data; a worker thread pulls them with read_body and repositions with *)
(* seek_in_buffer; close_current_stream tears the binding down.            *)
(*                                                                         *)
(* Bytes are identified by (stream, position in that stream).  A byte      *)
(* sequence is kept run-length encoded: a sequence of runs                 *)
(* [s |-> stream, from |-> first position, n |-> length], adjacent runs    *)
(* merged, so equal byte sequences are equal values.                       *)
(*                                                                         *)
(* Threads.  on_data runs on the network thread, in two steps: the         *)
(* binding and the content_length latch (no lock), then the locked append  *)
(* and notify.  read_body runs on the worker thread: its tests and the     *)
(* locked sufficiency check, then, after at most one wait, the locked      *)
(* copy.  seek_in_buffer runs on the worker thread between reads and takes *)
(* no lock.  close_current_stream takes no lock and may run at any point.  *)
(* The transport hands over chunks of one logical stream at a time: of the *)
(* bound stream, or of any stream when none is bound.  read_body is called *)
(* with size >= 0 (a negative size overruns the caller's buffer).          *)
(***************************************************************************)
EXTENDS Integers, Sequences, FiniteSets, TLC

\* ------------------------------------------------------------ constants
kReadBlockSize == 32768
AVSEEK_SIZE == 65536
SEEK_SET == 0
SEEK_CUR == 1
SEEK_END == 2

\* ------------------------------------------------------------ bounds and inputs
\* on_data calls in one run
MaxDeliveries == 3
\* the transport's streams and the total each declares (-1: unknown)
Streams == {5, 7, 9, 11}
DeclaredLength(s) == CASE s = 5 -> 20000 [] s = 7 -> 60000 [] s = 9 -> -1 [] OTHER -> 0
ChunkSizes == {-1, 0, 20000}
\* the read_body calls tried: <<size, timeout, buf is NULL>>
ReadCalls == {<<0, 0, FALSE>>, <<20000, 0, TRUE>>,
              <<20000, -1, FALSE>>, <<20000, 0, FALSE>>, <<20000, 100, FALSE>>,
              <<65536, -1, FALSE>>, <<65536, 0, FALSE>>, <<65536, 100, FALSE>>}
\* the seek_in_buffer calls tried: <<off, whence, target_off is NULL>>; the
\* fourth whence is one the code does not know
SeekCalls == {<<-20000, SEEK_SET, FALSE>>, <<20000, SEEK_SET, FALSE>>, <<40000, SEEK_SET, FALSE>>,
              <<-20000, SEEK_CUR, FALSE>>, <<0, SEEK_CUR, FALSE>>, <<20000, SEEK_CUR, FALSE>>,
              <<20000, SEEK_CUR, TRUE>>,
              <<-80000, SEEK_END, FALSE>>, <<-20000, SEEK_END, FALSE>>, <<0, SEEK_END, FALSE>>,
              <<0, AVSEEK_SIZE, FALSE>>, <<20000, AVSEEK_SIZE, TRUE>>,
              <<0, 3, FALSE>>}

\* the states is_buffer_sufficient is tried in on its own: retained sizes,
\* content lengths and read offsets
RetainedSizes == {0, 1, 20000, 32767, 32768, 32769, 65536}
Lengths == {-1, 0, 1, 32767, 32768, 32769, 65536, 100000}
Offsets == {0, 1, 32768, 65536, 67232}

VARIABLES
    response_buff_,      \* the retained window, a run sequence
    read_offset_,
    content_length_,
    current_stream_id_,
    got_first_data_,
    session,             \* QuicClientBase::session() != NULL
    mutex,               \* "free", "net" or "worker"
    pcN,                 \* the network thread's place in on_data
    od,                  \* the arguments of the on_data call under way
    pcW,                 \* the worker thread's place in read_body
    rb,                  \* the arguments and locals of the read_body call under way
    sent,                \* per stream, the bytes the transport has handed to on_data
    calls,               \* on_data calls so far
    delivered,           \* history: the chunks appended since the last close, concatenated
    returned,            \* history: the bytes read_body copied out since the last close
    consumed,            \* history: bytes handed out by reads plus bytes dropped by seek hits
    closed,              \* history: the streams close_current_stream has closed
    last                 \* the call that the step just taken completed, with its result

vars == <<response_buff_, read_offset_, content_length_, current_stream_id_,
          got_first_data_, session, mutex, pcN, od, pcW, rb,
          sent, calls, delivered, returned, consumed, closed, last>>

\* ------------------------------------------------------------ byte sequences
Min(a, b) == IF a < b THEN a ELSE b

RECURSIVE Size(_)
Size(b) == IF b = <<>> THEN 0 ELSE Head(b).n + Size(Tail(b))

\* a ++ b, merging the runs that meet when they are contiguous
Cat(a, b) ==
    IF a = <<>> THEN b
    ELSE IF b = <<>> THEN a
    ELSE LET x == a[Len(a)]
             y == Head(b)
         IN  IF x.s = y.s /\ x.from + x.n = y.from
             THEN SubSeq(a, 1, Len(a) - 1) \o <<[x EXCEPT !.n = x.n + y.n]>> \o Tail(b)
             ELSE a \o b

Chunk(s, from, n) == IF n = 0 THEN <<>> ELSE <<[s |-> s, from |-> from, n |-> n]>>

\* the first k bytes of b
RECURSIVE Take(_, _)
Take(b, k) ==
    IF k <= 0 \/ b = <<>> THEN <<>>
    ELSE IF Head(b).n <= k THEN <<Head(b)>> \o Take(Tail(b), k - Head(b).n)
    ELSE <<[Head(b) EXCEPT !.n = k]>>

\* b without its first k bytes
RECURSIVE Drop(_, _)
Drop(b, k) ==
    IF k <= 0 \/ b = <<>> THEN b
    ELSE IF Head(b).n <= k THEN Drop(Tail(b), k - Head(b).n)
    ELSE <<[s |-> Head(b).s, from |-> Head(b).from + k, n |-> Head(b).n - k]>> \o Tail(b)

IsPrefix(a, b) == Size(a) <= Size(b) /\ Take(b, Size(a)) = a

\* ------------------------------------------------------------ results
NoArgs == [a |-> 0, b |-> 0, null |-> FALSE]
NoPre == [off |-> 0, buff |-> <<>>, cl |-> 0, sid |-> 0, session |-> FALSE]
NoRead == [waits |-> 0, insufficient |-> FALSE, ecl |-> 0, eoff |-> 0, woken |-> FALSE]
NoCall == [op |-> "none", args |-> NoArgs, code |-> "none", v |-> 0,
           tgt_written |-> FALSE, tgt |-> 0, pre |-> NoPre, rd |-> NoRead,
           again |-> FALSE]

\* the state a call's step starts from
Pre == [off |-> read_offset_, buff |-> response_buff_, cl |-> content_length_,
        sid |-> current_stream_id_, session |-> session]

\* the record of a completed call: its arguments, its result code and value
Done(op, args, code, v) ==
    [op |-> op, args |-> args, code |-> code, v |-> v,
     tgt_written |-> FALSE, tgt |-> 0, pre |-> Pre, rd |-> NoRead, again |-> FALSE]

NoOd == [s |-> 0, size |-> 0, from |-> 0]
NoRb == [size |-> 0, timeout |-> 0, waits |-> 0, insufficient |-> FALSE,
         ecl |-> 0, eoff |-> 0]

\* ------------------------------------------------------------ is_buffer_sufficient
\* a tail rule that takes a whole block left for the tail too
is_buffer_sufficient_tail_inclusive(size, cl, off) ==
    IF cl = -1 THEN size > 0
    ELSE IF size = 0 THEN FALSE
    ELSE IF cl - off <= kReadBlockSize THEN TRUE
    ELSE size >= kReadBlockSize

\* a sufficiency test with no rule for the tail of the stream
is_buffer_sufficient_full_block(size, cl, off) ==
    IF cl = -1 THEN size > 0 ELSE size >= kReadBlockSize

\* lines 246-274, of the retained size, content_length_ and read_offset_
is_buffer_sufficient_of(size, cl, off) ==
    IF cl = -1 THEN size > 0
    ELSE IF size = 0 THEN FALSE
    ELSE IF cl - off < kReadBlockSize THEN TRUE
    ELSE IF size < kReadBlockSize THEN FALSE
    ELSE TRUE

is_buffer_sufficient ==
    is_buffer_sufficient_of(Size(response_buff_), content_length_, read_offset_)

\* one call of is_buffer_sufficient, looked at on its own
is_buffer_sufficient_call ==
    /\ last.op = "none"
    /\ last' = Done("is_buffer_sufficient", NoArgs,
                    IF is_buffer_sufficient THEN "true" ELSE "false", 0)
    /\ UNCHANGED <<response_buff_, read_offset_, content_length_, current_stream_id_,
                   got_first_data_, session, mutex, pcN, od, pcW, rb,
                   sent, calls, delivered, returned, consumed, closed>>

\* ------------------------------------------------------------ Init
Init ==
    /\ response_buff_ = <<>>
    /\ read_offset_ = 0
    /\ content_length_ = -1
    /\ current_stream_id_ = 0
    /\ got_first_data_ = FALSE
    /\ session = FALSE
    /\ mutex = "free"
    /\ pcN = "idle"
    /\ od = NoOd
    /\ pcW = "idle"
    /\ rb = NoRb
    /\ sent = [s \in Streams |-> 0]
    /\ calls = 0
    /\ delivered = <<>>
    /\ returned = <<>>
    /\ consumed = 0
    /\ closed = {}
    /\ last = NoCall

\* is_buffer_sufficient on its own: stream 11 bound, any of the retained sizes,
\* lengths and offsets around the block size
InitSufficient ==
    /\ response_buff_ \in {Chunk(11, 0, n) : n \in RetainedSizes}
    /\ read_offset_ \in Offsets
    /\ content_length_ \in Lengths
    /\ current_stream_id_ = 11
    /\ got_first_data_ = TRUE
    /\ session = TRUE
    /\ mutex = "free"
    /\ pcN = "idle"
    /\ od = NoOd
    /\ pcW = "idle"
    /\ rb = NoRb
    /\ sent = [s \in Streams |-> 0]
    /\ calls = 0
    /\ delivered = response_buff_
    /\ returned = <<>>
    /\ consumed = 0
    /\ closed = {}
    /\ last = NoCall

\* ------------------------------------------------------------ the session
\* The client base creates the session through CreateQuicClientSession.
CreateQuicClientSession ==
    /\ ~session
    /\ session' = TRUE
    /\ last' = NoCall
    /\ UNCHANGED <<response_buff_, read_offset_, content_length_, current_stream_id_,
                   got_first_data_, mutex, pcN, od, pcW, rb,
                   sent, calls, delivered, returned, consumed, closed>>

\* The connection goes away: QuicClientBase::session() is NULL from then on,
\* which close_current_stream tests for.
Disconnect ==
    /\ session
    /\ pcN = "idle"
    /\ session' = FALSE
    /\ last' = NoCall
    /\ UNCHANGED <<response_buff_, read_offset_, content_length_, current_stream_id_,
                   got_first_data_, mutex, pcN, od, pcW, rb,
                   sent, calls, delivered, returned, consumed, closed>>

\* ------------------------------------------------------------ on_data
\* What the transport may hand over for stream s: a chunk of one of the chunk
\* sizes or the stream's remainder, never past the stream's declared length.
ChunkChoices(s) ==
    IF DeclaredLength(s) = -1 THEN ChunkSizes
    ELSE LET rem == DeclaredLength(s) - sent[s]
         IN  {n \in ChunkSizes \cup {rem} : n <= rem}

\* a write that puts the chunk at the head of the window
ostream_write_front(buff, chunk) == Cat(chunk, buff)

\* line 238: ostream_.write puts the chunk at the tail of the window
ostream_write(buff, chunk) == Cat(buff, chunk)

\* lines 220-234: the NULL test (stream 0 is the NULL stream), the binding
\* and the content_length latch, all before the lock is taken
on_data(s, size, bufnull) ==
    /\ pcN = "idle"
    /\ session
    /\ calls < MaxDeliveries
    /\ calls' = calls + 1
    /\ last' = NoCall
    /\ IF s = 0
       THEN UNCHANGED <<response_buff_, read_offset_, content_length_, current_stream_id_,
                        got_first_data_, session, mutex, pcN, od, pcW, rb, closed,
                        sent, delivered, returned, consumed>>
       ELSE /\ current_stream_id_ \in {0, s}
            /\ current_stream_id_' = IF current_stream_id_ = 0 THEN s ELSE current_stream_id_
            /\ content_length_' = IF ~got_first_data_ THEN DeclaredLength(s) ELSE content_length_
            /\ got_first_data_' = TRUE
            /\ IF ~bufnull /\ size > 0
               THEN /\ pcN' = "od_write"
                    /\ od' = [s |-> s, size |-> size, from |-> sent[s]]
                    /\ sent' = [sent EXCEPT ![s] = @ + size]
               ELSE UNCHANGED <<pcN, od, sent>>
            /\ UNCHANGED <<response_buff_, read_offset_, session, mutex,
                           pcW, rb, delivered, returned, consumed, closed>>

\* an on_data that tests sufficiency before it appends
on_data_write_test_first ==
    /\ pcN = "od_write"
    /\ mutex = "free"
    /\ response_buff_' = ostream_write(response_buff_, Chunk(od.s, od.from, od.size))
    /\ pcW' = IF is_buffer_sufficient /\ pcW = "rb_wait" THEN "rb_woken" ELSE pcW
    /\ delivered' = Cat(delivered, Chunk(od.s, od.from, od.size))
    /\ pcN' = "idle"
    /\ od' = NoOd
    /\ last' = NoCall
    /\ UNCHANGED <<read_offset_, content_length_, current_stream_id_, got_first_data_,
                   session, mutex, rb, sent, calls, returned, consumed, closed>>

\* an on_data that appends and never notifies
on_data_write_silent ==
    /\ pcN = "od_write"
    /\ mutex = "free"
    /\ response_buff_' = ostream_write(response_buff_, Chunk(od.s, od.from, od.size))
    /\ delivered' = Cat(delivered, Chunk(od.s, od.from, od.size))
    /\ pcN' = "idle"
    /\ od' = NoOd
    /\ last' = NoCall
    /\ UNCHANGED <<read_offset_, content_length_, current_stream_id_, got_first_data_,
                   session, mutex, pcW, rb, sent, calls, returned, consumed, closed>>

\* lines 236-243: under the lock, ostream_.write appends the chunk, and
\* notify_all wakes the waiting reader if the buffer is then sufficient
on_data_write ==
    /\ pcN = "od_write"
    /\ mutex = "free"
    /\ LET buff == ostream_write(response_buff_, Chunk(od.s, od.from, od.size))
       IN  /\ response_buff_' = buff
           /\ pcW' = IF /\ is_buffer_sufficient_of(Size(buff), content_length_, read_offset_)
                        /\ pcW = "rb_wait"
                     THEN "rb_woken" ELSE pcW
    /\ delivered' = Cat(delivered, Chunk(od.s, od.from, od.size))
    /\ pcN' = "idle"
    /\ od' = NoOd
    /\ last' = NoCall
    /\ UNCHANGED <<read_offset_, content_length_, current_stream_id_, got_first_data_,
                   session, mutex, rb, sent, calls, returned, consumed, closed>>

\* ------------------------------------------------------------ read_body
ReadArgs(size, timeout, bufnull) == [a |-> size, b |-> timeout, null |-> bufnull]

\* line 99: the end-of-stream test
at_eof(cl, off) == cl > 0 /\ off >= cl

\* lines 105-113: the reader waits when the buffer is insufficient and the
\* timeout is not 0
must_wait(sufficient, timeout) == ~sufficient /\ timeout # 0

\* a read length that ignores what the window holds
read_len_unclamped(size, avail) == size

\* line 116
read_len_of(size, avail) == Min(size, avail)

\* lines 91-115: the argument test and the end-of-stream test; then, with the
\* lock taken, if the buffer is insufficient and the timeout is not 0, one
\* wait on the condition (which releases the lock)
read_body(size, timeout, bufnull) ==
    /\ pcW = "idle"
    /\ IF bufnull \/ size = 0
       THEN /\ last' = Done("read_body", ReadArgs(size, timeout, bufnull),
                            "kBeQuicErrorCode_Invalid_Param", 0)
            /\ UNCHANGED <<pcW, rb, mutex>>
       ELSE IF at_eof(content_length_, read_offset_)
       THEN /\ last' = [Done("read_body", ReadArgs(size, timeout, bufnull),
                             "kBeQuicErrorCode_Eof", 0)
                           EXCEPT !.rd.ecl = content_length_, !.rd.eoff = read_offset_]
            /\ UNCHANGED <<pcW, rb, mutex>>
       ELSE /\ mutex = "free"
            /\ last' = NoCall
            /\ rb' = [size |-> size, timeout |-> timeout,
                      waits |-> IF must_wait(is_buffer_sufficient, timeout) THEN 1 ELSE 0,
                      insufficient |-> ~is_buffer_sufficient,
                      ecl |-> content_length_, eoff |-> read_offset_]
            /\ IF must_wait(is_buffer_sufficient, timeout)
               THEN /\ pcW' = "rb_wait"
                    /\ UNCHANGED mutex
               ELSE /\ pcW' = "rb_copy"
                    /\ mutex' = "worker"
    /\ UNCHANGED <<response_buff_, read_offset_, content_length_, current_stream_id_,
                   got_first_data_, session, pcN, od,
                   sent, calls, delivered, returned, consumed, closed>>

ReadDone(code, v) ==
    [Done("read_body", ReadArgs(rb.size, rb.timeout, FALSE), code, v)
        EXCEPT !.rd = [waits |-> rb.waits, insufficient |-> rb.insufficient,
                       ecl |-> rb.ecl, eoff |-> rb.eoff, woken |-> pcW = "rb_woken"]]

\* lines 116-126, under the lock: read_len is what the window holds, up to
\* size; nothing retained returns 0; otherwise istream_.read takes read_len
\* bytes off the head of the window and read_offset_ advances by read_len
Copy ==
    /\ LET read_len == read_len_of(rb.size, Size(response_buff_))
           got == Take(response_buff_, read_len)
       IN  IF read_len = 0
           THEN /\ last' = ReadDone("value", 0)
                /\ UNCHANGED <<response_buff_, read_offset_, returned, consumed>>
           ELSE /\ response_buff_' = Drop(response_buff_, Size(got))
                /\ returned' = Cat(returned, got)
                /\ consumed' = consumed + Size(got)
                /\ read_offset_' = read_offset_ + read_len
                /\ last' = ReadDone("value", read_len)
    /\ pcW' = "idle"
    /\ rb' = NoRb
    /\ mutex' = "free"
    /\ UNCHANGED <<content_length_, current_stream_id_, got_first_data_, session,
                   pcN, od, sent, calls, delivered, closed>>

\* the buffer was sufficient, or the timeout 0: no wait, the lock is held
read_body_copy ==
    /\ pcW = "rb_copy"
    /\ Copy

\* lines 109, 112, 114: notify_all has woken the reader; the wait returns
\* with the lock taken again, and the loop is left
read_body_woken ==
    /\ pcW = "rb_woken"
    /\ mutex = "free"
    /\ Copy

\* a wait in a loop that goes round again: at the deadline the reader
\* re-checks sufficiency and waits once more if the buffer is still insufficient
read_body_timeout_retry ==
    /\ pcW = "rb_wait"
    /\ rb.timeout > 0
    /\ mutex = "free"
    /\ IF is_buffer_sufficient
       THEN Copy
       ELSE /\ rb' = [rb EXCEPT !.waits = @ + 1]
            /\ last' = NoCall
            /\ UNCHANGED <<response_buff_, read_offset_, content_length_,
                           current_stream_id_, got_first_data_, session, mutex, pcN, od,
                           pcW, sent, calls, delivered, returned, consumed, closed>>

\* lines 109, 114: wait_until gives up at its deadline, and the loop is left
read_body_timeout ==
    /\ pcW = "rb_wait"
    /\ rb.timeout > 0
    /\ mutex = "free"
    /\ Copy

\* lines 109, 112, 114: a condition variable's wait may return with no notify
read_body_spurious ==
    /\ pcW = "rb_wait"
    /\ mutex = "free"
    /\ Copy

\* ------------------------------------------------------------ seek_in_buffer
SeekArgs(off, whence, tnull) == [a |-> off, b |-> whence, null |-> tnull]

SeekDone(off, whence, tnull, code, v) ==
    Done("seek_in_buffer", SeekArgs(off, whence, tnull), code, v)

\* an unknown test that never finds the length unknown
length_unknown_ignored(cl) == FALSE

\* an unknown test that takes a length of 0 for unknown too
length_unknown_or_zero(cl) == cl <= 0

\* lines 134, 149: content_length_ is the unknown sentinel
length_unknown(cl) == cl = -1

\* line 144: the seeks that go nowhere
is_noop_seek(off, whence, roff) ==
    (whence = SEEK_CUR /\ off = 0) \/ (whence = SEEK_SET /\ off = roff)

\* a target taken as given, whatever the whence
Normalized_as_given(off, whence, roff, cl) == off

\* lines 154-157: the absolute target of a seek
Normalized(off, whence, roff, cl) ==
    IF whence = SEEK_CUR THEN off + roff
    ELSE IF whence = SEEK_END THEN off + cl
    ELSE off

\* a hit test that takes the end of the window for a hit
hits_buffer_inclusive(consume_size, left_size) ==
    consume_size > 0 /\ left_size >= consume_size

\* line 172: the target lies in the retained window, ahead of the cursor
hits_buffer(consume_size, left_size) == consume_size > 0 /\ left_size > consume_size

\* lines 129-188; it takes no lock and runs on the thread that calls read_body
seek_in_buffer(off, whence, tnull) ==
    /\ pcW = "idle"
    /\ LET target == Normalized(off, whence, read_offset_, content_length_)
           left_size == Size(response_buff_)
           consume_size == target - read_offset_
       IN  IF length_unknown(content_length_)
           THEN /\ last' = SeekDone(off, whence, tnull, "kBeQuicErrorCode_Not_Supported", 0)
                /\ UNCHANGED <<response_buff_, read_offset_, consumed>>
           ELSE IF whence = AVSEEK_SIZE
           THEN /\ last' = SeekDone(off, whence, tnull, "value", content_length_)
                /\ UNCHANGED <<response_buff_, read_offset_, consumed>>
           ELSE IF is_noop_seek(off, whence, read_offset_)
           THEN /\ last' = SeekDone(off, whence, tnull, "value", off)
                /\ UNCHANGED <<response_buff_, read_offset_, consumed>>
           ELSE IF length_unknown(content_length_) /\ whence = SEEK_END
           THEN /\ last' = SeekDone(off, whence, tnull, "kBeQuicErrorCode_Invalid_State", 0)
                /\ UNCHANGED <<response_buff_, read_offset_, consumed>>
           ELSE IF whence \notin {SEEK_CUR, SEEK_END, SEEK_SET}
           THEN /\ last' = SeekDone(off, whence, tnull, "kBeQuicErrorCode_Invalid_Param", 0)
                /\ UNCHANGED <<response_buff_, read_offset_, consumed>>
           ELSE IF target < 0
           THEN /\ last' = SeekDone(off, whence, tnull, "kBeQuicErrorCode_Invalid_Param", 0)
                /\ UNCHANGED <<response_buff_, read_offset_, consumed>>
           ELSE IF hits_buffer(consume_size, left_size)
           THEN /\ response_buff_' = Drop(response_buff_, consume_size)
                /\ consumed' = consumed + (left_size - Size(Drop(response_buff_, consume_size)))
                /\ read_offset_' = target
                /\ last' = SeekDone(off, whence, tnull, "value", target)
           ELSE /\ last' = [SeekDone(off, whence, tnull, "kBeQuicErrorCode_Buffer_Not_Hit", 0)
                               EXCEPT !.tgt_written = ~tnull,
                                      !.tgt = IF tnull THEN 0 ELSE target]
                /\ UNCHANGED <<response_buff_, read_offset_, consumed>>
    /\ UNCHANGED <<content_length_, current_stream_id_, got_first_data_,
                   session, mutex, pcN, od, pcW, rb, sent, calls, delivered, returned, closed>>

\* ------------------------------------------------------------ close_current_stream
\* the step before this one was a close_current_stream that returned true
AfterClose == last.op = "close_current_stream" /\ last.code = "true"

\* a close that leaves the stream bound
close_current_stream_keeps_id ==
    /\ IF current_stream_id_ = 0 \/ ~session
       THEN /\ last' = [Done("close_current_stream", NoArgs, "false", 0)
                           EXCEPT !.again = AfterClose]
            /\ UNCHANGED <<response_buff_, read_offset_, delivered, returned, consumed, closed>>
       ELSE /\ read_offset_' = 0
            /\ response_buff_' = Drop(response_buff_, Size(response_buff_))
            /\ delivered' = <<>>
            /\ returned' = <<>>
            /\ consumed' = 0
            /\ closed' = closed \cup {current_stream_id_}
            /\ last' = [Done("close_current_stream", NoArgs, "true", 0)
                           EXCEPT !.again = AfterClose]
    /\ UNCHANGED <<content_length_, current_stream_id_, got_first_data_, session, mutex,
                   pcN, od, pcW, rb, sent, calls>>

\* lines 190-217; it takes no lock.  The histories start again with the
\* next binding.
close_current_stream ==
    /\ IF current_stream_id_ = 0 \/ ~session
       THEN /\ last' = [Done("close_current_stream", NoArgs, "false", 0)
                           EXCEPT !.again = AfterClose]
            /\ UNCHANGED <<response_buff_, read_offset_, current_stream_id_,
                           delivered, returned, consumed, closed>>
       ELSE /\ current_stream_id_' = 0
            /\ read_offset_' = 0
            /\ response_buff_' = Drop(response_buff_, Size(response_buff_))
            /\ delivered' = <<>>
            /\ returned' = <<>>
            /\ consumed' = 0
            /\ closed' = closed \cup {current_stream_id_}
            /\ last' = [Done("close_current_stream", NoArgs, "true", 0)
                           EXCEPT !.again = AfterClose]
    /\ UNCHANGED <<content_length_, got_first_data_, session, mutex,
                   pcN, od, pcW, rb, sent, calls>>

\* ------------------------------------------------------------ specifications
Deliver ==
    \E s \in Streams \cup {0}, bufnull \in BOOLEAN :
       \E size \in (IF s = 0 THEN ChunkSizes ELSE ChunkChoices(s)) :
          on_data(s, size, bufnull)

Read == \E c \in ReadCalls : read_body(c[1], c[2], c[3])

Seek ==
    \E c \in SeekCalls \cup {<<read_offset_, SEEK_SET, FALSE>>} :
       seek_in_buffer(c[1], c[2], c[3])

\* deliveries and reads of one binding: no seek, no close
NextRW ==
    \/ CreateQuicClientSession
    \/ Disconnect
    \/ Deliver
    \/ on_data_write
    \/ Read
    \/ read_body_copy
    \/ read_body_woken
    \/ read_body_timeout
    \/ read_body_spurious

\* one binding: no close
NextBinding ==
    \/ NextRW
    \/ Seek

Next ==
    \/ NextBinding
    \/ close_current_stream

Spec == Init /\ [][Next]_vars
SpecBinding == Init /\ [][NextBinding]_vars
SpecRW == Init /\ [][NextRW]_vars

\* a consumer that keeps reading: read_body with a buffer and a size, any timeout
ReadLive == \E c \in ReadCalls : ~c[3] /\ c[1] # 0 /\ read_body(c[1], c[2], c[3])

\* one binding read to its end: deliveries and reads, no seek, no close, the
\* connection stays
NextLive ==
    \/ CreateQuicClientSession
    \/ Deliver
    \/ on_data_write
    \/ ReadLive
    \/ read_body_copy
    \/ read_body_woken
    \/ read_body_timeout
    \/ read_body_spurious

\* The worker thread runs: the consumer calls read_body again whenever the
\* last call has returned, a reader that holds the lock copies, a notified
\* reader gets the lock back (on_data holds it for the append only), and the
\* deadline of wait_until passes.  Nothing is assumed of the transport here,
\* and nothing of spurious wake-ups.
SpecLive ==
    /\ Init
    /\ [][NextLive]_vars
    /\ WF_vars(ReadLive)
    /\ WF_vars(read_body_copy)
    /\ WF_vars(read_body_woken)
    /\ WF_vars(read_body_timeout)

SpecSufficient == InitSufficient /\ [][is_buffer_sufficient_call]_vars

\* ------------------------------------------------------------ claims
\* C1: with deliveries and reads only (one binding, no seek, no close), the
\* bytes read_body has returned, in order, are a prefix of the bytes on_data
\* has appended, in order: none lost, duplicated or reordered.
C1_ReadsArePrefixOfDeliveries == IsPrefix(returned, delivered)

\* three chunks delivered, two reads of one chunk each done, one chunk retained
C1_Witness ==
    /\ Size(delivered) = 60000
    /\ Size(returned) = 40000
    /\ Size(response_buff_) = 20000
    /\ last.op = "read_body" /\ last.v = 20000 /\ last.pre.off = 20000

C2_Accounting ==
    /\ read_offset_ = consumed
    /\ Size(response_buff_) = Size(delivered) - consumed

\* C2: within one binding (deliveries, reads, seeks, no close) read_offset_ is
\* the number of bytes consumed (copied out by reads or dropped by seek hits),
\* the window holds the bytes delivered less the bytes consumed, and
\* read_offset_ never decreases.
C2_OffsetCountsConsumed == [](C2_Accounting) /\ [][read_offset_' >= read_offset_]_vars

\* a read and a seek hit have both consumed, and bytes are still retained
C2_Witness ==
    /\ Size(returned) > 0
    /\ consumed > Size(returned)
    /\ response_buff_ # <<>>

\* C3: whenever content_length_ is known, 0 <= read_offset_ <= content_length_
\* (each stream delivers no more than it declares), across deliveries, reads,
\* seeks, close_current_stream and re-binding to a stream of another length.
C3_OffsetWithinLength ==
    content_length_ # -1 => (0 <= read_offset_ /\ read_offset_ <= content_length_)

\* the step just taken completed a read_body / seek_in_buffer /
\* close_current_stream call; the state is the one the call left
JustRead == last.op = "read_body"
JustSought == last.op = "seek_in_buffer"
JustClosed == last.op = "close_current_stream"
Untouched == read_offset_ = last.pre.off /\ response_buff_ = last.pre.buff

\* C4: a read_body call (buf not NULL, size not 0) entered with content_length_
\* known, 0 included, and read_offset_ >= content_length_ returns end-of-stream
\* whatever the timeout, without a wait and without touching read_offset_ or
\* the window.
C4_EofWhenLengthKnown ==
    (/\ JustRead
     /\ ~last.args.null
     /\ last.args.a # 0
     /\ last.rd.ecl # -1
     /\ last.rd.eoff >= last.rd.ecl)
    => (/\ last.code = "kBeQuicErrorCode_Eof"
        /\ last.rd.waits = 0
        /\ Untouched)

\* the absolute target of the seek just made, from its arguments and the
\* state it started in
SeekTarget ==
    CASE last.args.b = SEEK_SET -> last.args.a
      [] last.args.b = SEEK_CUR -> last.pre.off + last.args.a
      [] last.args.b = SEEK_END -> last.pre.cl + last.args.a

\* C5: a seek with content_length_ known and an absolute target T >= 0 other
\* than read_offset_: if read_offset_ < T < read_offset_ + retained size it
\* returns T, sets read_offset_ to T and drops exactly T - read_offset_ bytes
\* off the head of the window; otherwise (T at or past the end of the window,
\* or behind read_offset_) it returns buffer-miss, reports T through
\* target_off when that is given, and leaves read_offset_ and the window alone.
C5_SeekHitOrMiss ==
    (/\ JustSought
     /\ last.pre.cl # -1
     /\ last.args.b \in {SEEK_SET, SEEK_CUR, SEEK_END}
     /\ SeekTarget >= 0
     /\ SeekTarget # last.pre.off)
    => IF last.pre.off < SeekTarget /\ SeekTarget < last.pre.off + Size(last.pre.buff)
       THEN /\ last.code = "value"
            /\ last.v = SeekTarget
            /\ read_offset_ = SeekTarget
            /\ Size(response_buff_) = Size(last.pre.buff) - (SeekTarget - last.pre.off)
            /\ response_buff_ = Drop(last.pre.buff, SeekTarget - last.pre.off)
       ELSE /\ last.code = "kBeQuicErrorCode_Buffer_Not_Hit"
            /\ (~last.args.null => last.tgt_written /\ last.tgt = SeekTarget)
            /\ Untouched

\* a hit from offset 20000 to 40000 that leaves 20000 bytes retained
C5_Witness ==
    /\ JustSought
    /\ last.args.b = SEEK_CUR
    /\ last.pre.off = 20000
    /\ last.code = "value" /\ last.v = 40000
    /\ read_offset_ = 40000
    /\ Size(response_buff_) = 20000

\* C6: in every state, content_length_ known or not, seek(0, SEEK_CUR) and
\* seek(read_offset_, SEEK_SET) return the current read_offset_ and leave
\* read_offset_ and the window alone.
C6_NoopSeekReturnsOffset ==
    (/\ JustSought
     /\ \/ (last.args.b = SEEK_CUR /\ last.args.a = 0)
        \/ (last.args.b = SEEK_SET /\ last.args.a = last.pre.off))
    => (/\ last.code = "value"
        /\ last.v = last.pre.off
        /\ Untouched)

\* C7: with content_length_ unknown, a SEEK_END seek fails with
\* kBeQuicErrorCode_Invalid_State for every offset and leaves read_offset_ and
\* the window alone.
C7_SeekEndUnknownIsInvalidState ==
    (JustSought /\ last.pre.cl = -1 /\ last.args.b = SEEK_END)
    => (last.code = "kBeQuicErrorCode_Invalid_State" /\ Untouched)

\* C8: an AVSEEK_SIZE seek returns content_length_ when it is known and
\* kBeQuicErrorCode_Not_Supported when it is not, for every offset and state,
\* and leaves read_offset_ and the window alone.
C8_SizeQuery ==
    (JustSought /\ last.args.b = AVSEEK_SIZE)
    => (/\ IF last.pre.cl # -1
           THEN last.code = "value" /\ last.v = last.pre.cl
           ELSE last.code = "kBeQuicErrorCode_Not_Supported"
        /\ ~last.tgt_written
        /\ Untouched)

\* a size query with a non-zero offset argument, mid-stream, bytes retained
C8_Witness ==
    /\ JustSought
    /\ last.args.b = AVSEEK_SIZE /\ last.args.a = 20000
    /\ last.v = 60000
    /\ read_offset_ = 20000
    /\ response_buff_ # <<>>

\* C9: close_current_stream with a stream bound and a session returns true and
\* leaves the stream unbound, read_offset_ 0 and the window empty; a call
\* right after that returns false and changes nothing; so does a call with no
\* stream bound or no session.
C9_CloseThenNoop ==
    JustClosed
    => /\ IF last.pre.sid # 0 /\ last.pre.session
          THEN /\ last.code = "true"
               /\ current_stream_id_ = 0
               /\ read_offset_ = 0
               /\ response_buff_ = <<>>
          ELSE /\ last.code = "false"
               /\ current_stream_id_ = last.pre.sid
               /\ Untouched
       /\ last.again => (/\ last.code = "false"
                         /\ current_stream_id_ = last.pre.sid
                         /\ Untouched)

\* the second of two calls in a row, the first of which closed a stream
C9_Witness ==
    /\ JustClosed
    /\ last.again
    /\ last.pre.session
    /\ last.code = "false"

\* C10: a read_body call waits on the condition at most once: never with
\* timeout 0, otherwise once and only if the buffer was insufficient when it
\* took the lock; when the wait has returned it does not check again, and
\* returns min(size, retained size) bytes, 0 included.
C10_OneWaitPerRead ==
    /\ pcW \in {"rb_wait", "rb_woken", "rb_copy"}
       => /\ rb.waits <= 1
          /\ rb.timeout = 0 => rb.waits = 0
          /\ rb.waits = 1 => rb.insufficient
    /\ (JustRead /\ last.code = "value")
       => /\ last.rd.waits <= 1
          /\ last.args.b = 0 => last.rd.waits = 0
          /\ last.rd.waits = 1 => last.rd.insufficient
          /\ last.v = Min(last.args.a, Size(last.pre.buff))

\* a read that waited once and came back with nothing
C10_Witness ==
    /\ JustRead
    /\ last.rd.waits = 1
    /\ last.code = "value" /\ last.v = 0

\* a reader waits on an empty window, content_length_ is known and less than
\* a block is left of the stream
TailWait ==
    /\ pcW = "rb_wait"
    /\ response_buff_ = <<>>
    /\ content_length_ # -1
    /\ content_length_ - read_offset_ < kReadBlockSize

C11_Woken ==
    pcW = "rb_woken" => (response_buff_ # <<>> /\ rb.waits = 1)

\* C11: within one binding, when content_length_ is known and
\* content_length_ - read_offset_ < kReadBlockSize, a reader that waits in
\* read_body on an empty window is woken by the next non-empty chunk on_data
\* appends, however small; the window then holds that chunk, and the woken
\* read returns min(size, retained size) > 0 bytes off the head of the window
\* with no second wait.
C11_TailChunkWakes ==
    /\ [](C11_Woken)
    /\ [][(TailWait /\ pcN = "od_write" /\ pcN' = "idle")
            => (/\ pcW' = "rb_woken"
                /\ response_buff_' = Chunk(od.s, od.from, od.size)
                /\ response_buff_' # <<>>)]_vars
    /\ [][(pcW = "rb_woken" /\ pcW' = "idle")
            => (/\ last'.op = "read_body" /\ last'.code = "value"
                /\ last'.v > 0
                /\ last'.v = Min(last'.args.a, Size(response_buff_))
                /\ last'.rd.waits = 1
                /\ returned' = Cat(returned, Take(response_buff_, last'.v))
                /\ read_offset_' = read_offset_ + last'.v)]_vars

\* a reader that waited with no deadline on an empty window, 20000 bytes from
\* the end of the stream, was woken by a 20000 byte chunk and returned it
C11_Witness ==
    /\ JustRead
    /\ last.rd.woken
    /\ last.args.b = -1
    /\ last.rd.ecl = 60000 /\ last.pre.off = 40000
    /\ Size(last.pre.buff) = 20000
    /\ last.v = 20000

\* the streams whose bytes are in b
StreamsOf(b) == {b[i].s : i \in 1..Len(b)}

\* C12: once close_current_stream has closed a stream (returned true), a
\* read_body call made later, with another stream bound, returns no byte that
\* on_data delivered for the closed stream, however close_current_stream, the
\* on_data deliveries (late chunks of the closed stream included) and the
\* reads interleave.  The reads looked at are those that did not wait: they
\* hold the lock from the sufficiency check to the copy, so the bytes they
\* return were retained, and their stream closed, before the call began.
C12_NoClosedStreamBytes ==
    (/\ JustRead /\ last.code = "value" /\ last.v > 0
     /\ last.rd.waits = 0
     /\ last.pre.sid # 0)
    => StreamsOf(Take(last.pre.buff, last.v)) \cap (closed \ {last.pre.sid}) = {}

\* C13: seek_in_buffer fails with kBeQuicErrorCode_Invalid_Param, and leaves
\* read_offset_, the window and target_off alone, whenever whence is none of
\* SEEK_SET, SEEK_CUR, SEEK_END and AVSEEK_SIZE, and whenever the absolute
\* target (off, read_offset_ + off or content_length_ + off) is negative.
C13_InvalidArgument ==
    (/\ JustSought
     /\ \/ last.args.b \notin {SEEK_SET, SEEK_CUR, SEEK_END, AVSEEK_SIZE}
        \/ (last.args.b \in {SEEK_SET, SEEK_CUR, SEEK_END} /\ SeekTarget < 0))
    => (/\ last.code = "kBeQuicErrorCode_Invalid_Param"
        /\ ~last.tgt_written
        /\ Untouched)

\* C14: for every retained size, content_length_ (known or not) and
\* read_offset_, is_buffer_sufficient returns: retained > 0 if content_length_
\* is unknown; otherwise false if nothing is retained; otherwise true if
\* content_length_ - read_offset_ < 32768; otherwise retained >= 32768.
C14_Sufficiency ==
    last.op = "is_buffer_sufficient"
    => LET retained == Size(last.pre.buff)
           expected == IF last.pre.cl = -1 THEN retained > 0
                       ELSE IF retained = 0 THEN FALSE
                       ELSE IF last.pre.cl - last.pre.off < 32768 THEN TRUE
                       ELSE retained >= 32768
       IN  last.code = (IF expected THEN "true" ELSE "false")

\* one byte retained, a block less one byte left: sufficient; and the same
\* with a whole block left would not be
C14_Witness ==
    /\ last.op = "is_buffer_sufficient"
    /\ last.code = "true"
    /\ Size(last.pre.buff) = 1
    /\ last.pre.cl - last.pre.off = 32767

\* C15: every mutation of the window, read_offset_, current_stream_id_ or
\* content_length_ other than seek_in_buffer's is made with the mutex held
\* (on_data binds, latches and appends under it, close_current_stream resets
\* and drains under it), so while read_body holds the mutex no step of
\* another call changes any of the four.
C15_LockedSectionExclusive ==
    [][(mutex = "worker" /\ mutex' = "worker")
        => UNCHANGED <<response_buff_, read_offset_, current_stream_id_,
                       content_length_>>]_vars

C16_Latched ==
    current_stream_id_ # 0 => content_length_ = DeclaredLength(current_stream_id_)

\* C16: for every binding, one made after close_current_stream included,
\* content_length_ is the total the bound stream declares, latched at the
\* on_data call that delivers the binding's first chunk, and it does not
\* change while the binding lasts.
C16_LatchedOncePerBinding ==
    /\ [](C16_Latched)
    /\ [][(current_stream_id_ # 0 /\ current_stream_id_' = current_stream_id_)
            => content_length_' = content_length_]_vars

\* C17: the on_data step that appends a (non-empty) chunk wakes the waiting
\* reader if and only if is_buffer_sufficient holds in the state the append
\* leaves; an append that leaves the buffer insufficient wakes no reader, and
\* neither does an on_data call with a NULL stream, a NULL buffer or
\* size <= 0, which appends nothing.
C17_WakeIffSufficient ==
    /\ [][(pcN = "od_write" /\ pcN' = "idle")
            => /\ response_buff_' = Cat(response_buff_, Chunk(od.s, od.from, od.size))
               /\ od.size > 0
               /\ IF pcW = "rb_wait"
                  THEN (pcW' = "rb_woken") <=> is_buffer_sufficient'
                  ELSE pcW' = pcW]_vars
    /\ [][(pcN = "idle" /\ calls' = calls + 1)
            => (/\ pcW' = pcW
                /\ response_buff_' = response_buff_
                /\ pcN' = "od_write" =>  od'.size > 0)]_vars

\* a reader that began to wait before anything had arrived is still waiting
\* after the append of 20000 of 60000 bytes, less than a block
C17_Witness ==
    /\ pcW = "rb_wait"
    /\ rb.ecl = -1
    /\ pcN = "idle"
    /\ content_length_ = 60000
    /\ Size(response_buff_) = 20000
    /\ ~is_buffer_sufficient

\* the transport has handed over, and on_data appended, all the bytes of a
\* stream of known length L > 0
AllDelivered == content_length_ > 0 /\ Size(delivered) = content_length_

EofReceived ==
    /\ JustRead
    /\ last.code = "kBeQuicErrorCode_Eof"
    /\ read_offset_ = content_length_

\* C18: with content_length_ = L > 0 known, no close, and a transport that
\* eventually delivers all L bytes in order, every read_body call with
\* timeout < 0 eventually returns, and a consumer that keeps calling
\* read_body eventually reaches read_offset_ = L and receives end-of-stream.
C18_ReadsTerminate ==
    <>AllDelivered
    => /\ (pcW # "idle" /\ rb.timeout < 0) ~> (pcW = "idle")
       /\ <>EofReceived

\* end-of-stream at 60000 after three chunks, returned to a call that would
\* have waited with no deadline
C18_Witness ==
    /\ EofReceived
    /\ last.args.b = -1
    /\ read_offset_ = 60000
    /\ Size(returned) = 60000

\* C19: while content_length_ is -1, every seek_in_buffer call returns
\* kBeQuicErrorCode_Not_Supported whatever whence and off are (an off inside
\* the retained window included) and changes neither read_offset_ nor the
\* window nor target_off.
C19_UnknownLengthNotSupported ==
    (JustSought /\ last.pre.cl = -1)
    => (/\ last.code = "kBeQuicErrorCode_Not_Supported"
        /\ ~last.tgt_written
        /\ Untouched)

\* length unknown, 40000 bytes retained, a seek to 20000 inside them
C19_Witness ==
    /\ JustSought
    /\ last.pre.cl = -1
    /\ last.args.a = 20000 /\ last.args.b = SEEK_SET
    /\ Size(last.pre.buff) = 40000
    /\ last.code = "kBeQuicErrorCode_Not_Supported"

\* C20: seek_in_buffer changes read_offset_ or the window only on a buffer
\* hit (it returns the target and read_offset_ becomes the target); on a hit
\* the window stays non-empty and read_offset_ + retained size is what it
\* was; target_off is written only when the result is buffer-miss, and is
\* then the absolute target.
C20_SeekFrame ==
    JustSought
    => /\ ~Untouched
          => (/\ last.code = "value"
              /\ last.args.b \in {SEEK_SET, SEEK_CUR, SEEK_END}
              /\ last.v = SeekTarget
              /\ read_offset_ = SeekTarget
              /\ response_buff_ # <<>>
              /\ read_offset_ + Size(response_buff_)
                    = last.pre.off + Size(last.pre.buff))
       /\ last.tgt_written
          => (/\ last.code = "kBeQuicErrorCode_Buffer_Not_Hit"
              /\ last.args.b \in {SEEK_SET, SEEK_CUR, SEEK_END}
              /\ last.tgt = SeekTarget)

\* a hit from 0 to 40000 in a window of 60000: 20000 stay retained and
\* target_off is not written
C20_Witness ==
    /\ JustSought
    /\ last.args.b = SEEK_SET /\ last.args.a = 40000
    /\ last.pre.off = 0
    /\ read_offset_ = 40000
    /\ Size(response_buff_) = 20000
    /\ ~last.tgt_written

=============================================================================
